---- MODULE Spec2Model ----
(***************************************************************************)
(* django_cryptography.utils.crypto: the FernetBytes / Fernet engines.     *)
(*                                                                         *)
(* Byte strings are sequences of 0..255.  The engine's own code (key       *)
(* handling, PKCS7 framing, the order of the steps of encrypt and decrypt, *)
(* the error each step raises, the base64 layer of Fernet) is translated   *)
(* from crypto.py.  The two library primitives it calls are stood in for   *)
(* by small functions of the same shape: AES by a keyed permutation of     *)
(* 16-byte blocks (run in CBC mode as the library does), HMAC by a keyed   *)
(* checksum.  The Signer lives in core/signing.py, which is not among the  *)
(* sources; it is modelled from section 4.4 of the specification.          *)
(***************************************************************************)
EXTENDS Integers, Sequences, FiniteSets, TLC

\* ------------------------------------------------------------ bounds
\* The clock runs over 0..MaxTime; a TTL ranges over 0..MaxTtl.
MaxTime == 2
MaxTtl == 1

\* ------------------------------------------------- program constants
\* algorithms.AES.block_size, in bytes
BlockSize == 16
\* os.urandom(16)
IvLen == 16
\* len(key) != 32
FernetKeyLen == 32
\* key[16:], key[:16]
SplitAt == 16

\* -------------------------------------------------------- byte strings
Rep(b, n) == [i \in 1..n |-> b]

Take(s, n) == SubSeq(s, 1, IF n < Len(s) THEN n ELSE Len(s))

Drop(s, n) == SubSeq(s, (IF n < Len(s) THEN n ELSE Len(s)) + 1, Len(s))

RECURSIVE Xor(_, _)
Xor(a, b) ==
  IF a = 0 THEN b
  ELSE IF b = 0 THEN a
  ELSE ((a + b) % 2) + 2 * Xor(a \div 2, b \div 2)

XorBytes(x, y) == [i \in 1..Len(x) |-> Xor(x[i], y[i])]

\* 2^n for n in 0..7
Pow2(n) == CASE n = 0 -> 1 [] n = 1 -> 2 [] n = 2 -> 4 [] n = 3 -> 8
             [] n = 4 -> 16 [] n = 5 -> 32 [] n = 6 -> 64 [] OTHER -> 128

\* s with bit `bit` of the byte at position pos flipped
FlipBit(s, pos, bit) == [s EXCEPT ![pos] = Xor(s[pos], Pow2(bit))]

\* force_bytes: bytes pass through, text is encoded as UTF-8 (code points
\* below 0x800 are enough for the inputs used here)
RECURSIVE Utf8(_)
Utf8(cs) ==
  IF cs = <<>> THEN <<>>
  ELSE (IF Head(cs) < 128 THEN <<Head(cs)>>
        ELSE <<192 + (Head(cs) \div 64), 128 + (Head(cs) % 64)>>) \o Utf8(Tail(cs))

ForceBytes(v) == IF v.str THEN Utf8(v.val) ELSE v.val

Bytes(s) == [str |-> FALSE, val |-> s]
Text(s) == [str |-> TRUE, val |-> s]

\* ------------------------------------------------------------ base64
\* base64.urlsafe_b64encode: the alphabet A-Z a-z 0-9 - _
B64Char(i) ==
  IF i < 26 THEN 65 + i
  ELSE IF i < 52 THEN 97 + (i - 26)
  ELSE IF i < 62 THEN 48 + (i - 52)
  ELSE IF i = 62 THEN 45 ELSE 95

PadChar == 61

\* Three bytes make four characters; a last group of one or two bytes is
\* filled up with '='.
UrlsafeB64Encode(s) ==
  LET n == Len(s)
      at(i) == IF i <= n THEN s[i] ELSE 0
  IN [k \in 1..(4 * ((n + 2) \div 3)) |->
        LET g == (k - 1) \div 4
            b0 == at(3 * g + 1)
            b1 == at(3 * g + 2)
            b2 == at(3 * g + 3)
        IN CASE (k - 1) % 4 = 0 -> B64Char(b0 \div 4)
             [] (k - 1) % 4 = 1 -> B64Char((b0 % 4) * 16 + (b1 \div 16))
             [] (k - 1) % 4 = 2 ->
                  IF 3 * g + 2 > n THEN PadChar
                  ELSE B64Char((b1 % 16) * 4 + (b2 \div 64))
             [] OTHER -> IF 3 * g + 3 > n THEN PadChar ELSE B64Char(b2 % 64)]

\* The value of a character for urlsafe_b64decode, 64 for a character outside
\* the alphabet.  The translation '-' -> '+', '_' -> '/' comes first, so both
\* spellings of 62 and 63 are taken.
B64Value(c) ==
  IF c >= 65 /\ c <= 90 THEN c - 65
  ELSE IF c >= 97 /\ c <= 122 THEN c - 97 + 26
  ELSE IF c >= 48 /\ c <= 57 THEN c - 48 + 52
  ELSE IF c = 43 \/ c = 45 THEN 62
  ELSE IF c = 47 \/ c = 95 THEN 63
  ELSE 64

InAlphabet(c) == B64Value(c) # 64

KeptByDecoder(c) == c = PadChar \/ InAlphabet(c)

\* base64.urlsafe_b64decode of a byte string, i.e. binascii.a2b_base64 in its
\* default (non-strict) mode: characters outside the alphabet are skipped;
\* decoding stops at the first '=' that completes a group begun with two or
\* three characters; otherwise a group left incomplete at the end is an
\* error.  [ok, val]; ok = FALSE is binascii.Error.
UrlsafeB64Decode(s) ==
  LET t == SelectSeq(s, KeptByDecoder)
      IsData(i) == t[i] # PadChar
      Quad(i) == Cardinality({j \in 1..(i - 1) : IsData(j)}) % 4
      LastData(i) == CHOOSE j \in 0..(i - 1) :
                       /\ j = 0 \/ IsData(j)
                       /\ \A k \in (j + 1)..(i - 1) : ~IsData(k)
      Stops == {i \in 1..Len(t) :
                  ~IsData(i) /\ Quad(i) >= 2 /\ Quad(i) + (i - LastData(i)) >= 4}
      end == IF Stops = {} THEN Len(t) + 1
             ELSE CHOOSE i \in Stops : \A j \in Stops : i <= j
      d == SelectSeq(SubSeq(t, 1, end - 1), InAlphabet)
      n == Len(d)
      v(i) == B64Value(d[i])
  IN IF Stops = {} /\ n % 4 # 0 THEN [ok |-> FALSE, val |-> <<>>]
     ELSE [ok |-> TRUE,
           val |-> [k \in 1..((n * 6) \div 8) |->
                      LET g == 4 * ((k - 1) \div 3) IN
                      CASE (k - 1) % 3 = 0 -> v(g + 1) * 4 + (v(g + 2) \div 16)
                        [] (k - 1) % 3 = 1 -> (v(g + 2) % 16) * 16 + (v(g + 3) \div 4)
                        [] OTHER -> (v(g + 3) % 4) * 64 + v(g + 4)]]

\* ------------------------------------------------------ results, errors
\* What a call hands back: bytes, or the exception it raises.
Ok(b) == [kind |-> "bytes", val |-> b]
Raise(e) == [kind |-> e, val |-> <<>>]
NoResult == [kind |-> "none", val |-> <<>>]

\* ----------------------------------------------------- PKCS7 and AES-CBC
\* Pkcs7Pad gone wrong: no padding block for data that already fills its blocks
Pkcs7PadNoFullBlock(data) ==
  LET n == (BlockSize - (Len(data) % BlockSize)) % BlockSize IN data \o Rep(n, n)

\* padding.PKCS7(algorithms.AES.block_size).padder(): update + finalize
Pkcs7Pad(data) ==
  LET n == BlockSize - (Len(data) % BlockSize) IN data \o Rep(n, n)

\* padding.PKCS7(...).unpadder(): update + finalize.  finalize raises
\* ValueError unless exactly one block is buffered and its padding is sound.
Pkcs7Unpad(p) ==
  IF Len(p) = 0 \/ Len(p) % BlockSize # 0 THEN Raise("ValueError")
  ELSE LET n == p[Len(p)] IN
       IF n = 0 \/ n > BlockSize THEN Raise("ValueError")
       ELSE IF \E i \in (Len(p) - n + 1)..Len(p) : p[i] # n THEN Raise("ValueError")
       ELSE Ok(SubSeq(p, 1, Len(p) - n))

\* algorithms.AES(key): the key is 128, 192 or 256 bits, else ValueError
AesKeyOk(key) == Len(key) \in {16, 24, 32}

\* Cipher(AES(key), CBC(iv)): the IV is one block long, else ValueError
CipherOk(key, iv) == AesKeyOk(key) /\ Len(iv) = BlockSize

\* The block cipher: a permutation of the 16-byte blocks for each key
\* (bytes rotated one place, the key added byte by byte).
BlockEncrypt(key, b) ==
  [i \in 1..BlockSize |->
     (b[(i % BlockSize) + 1] + key[((i - 1) % Len(key)) + 1] + i) % 256]

BlockDecrypt(key, c) ==
  [i \in 1..BlockSize |->
     LET j == ((i + BlockSize - 2) % BlockSize) + 1 IN
     (c[j] + 512 - key[((j - 1) % Len(key)) + 1] - j) % 256]

\* encryptor.update(padded) + encryptor.finalize(), CBC chaining
RECURSIVE CbcEncrypt(_, _, _)
CbcEncrypt(key, prev, padded) ==
  IF Len(padded) = 0 THEN <<>>
  ELSE LET c == BlockEncrypt(key, XorBytes(SubSeq(padded, 1, BlockSize), prev))
       IN c \o CbcEncrypt(key, c, SubSeq(padded, BlockSize + 1, Len(padded)))

\* decryptor.update(ciphertext): the whole blocks, decrypted
RECURSIVE CbcDecrypt(_, _, _)
CbcDecrypt(key, prev, ct) ==
  IF Len(ct) < BlockSize THEN <<>>
  ELSE LET c == SubSeq(ct, 1, BlockSize)
       IN XorBytes(BlockDecrypt(key, c), prev)
          \o CbcDecrypt(key, c, SubSeq(ct, BlockSize + 1, Len(ct)))

\* decryptor.finalize(): ValueError when a partial block is left over
CbcFinalizeOk(ct) == Len(ct) % BlockSize = 0

\* ------------------------------------------------------------- Signer
\* typing.Signer gives only the shape (constructor over key, sign, unsign);
\* the behaviour is that of section 4.4 of the specification: sign binds the
\* time into the output and appends a MAC over value and encoded time; unsign
\* checks the MAC first ("bad signature"), then the age ("signature expired").
TimeLen == 4
MacLen == 4

RECURSIVE EncodeInt(_, _)
EncodeInt(t, n) == IF n = 0 THEN <<>> ELSE Append(EncodeInt(t \div 256, n - 1), t % 256)

RECURSIVE DecodeInt(_)
DecodeInt(bs) ==
  IF Len(bs) = 0 THEN 0
  ELSE DecodeInt(SubSeq(bs, 1, Len(bs) - 1)) * 256 + bs[Len(bs)]

\* settings.SECRET_KEY of the test settings: 'test_key'
SecretKey == <<116, 101, 115, 116, 95, 107, 101, 121>>

\* Signer(key=None): the signer falls back on the configured secret
SignerNew(variant, key) ==
  [variant |-> variant, key |-> IF Len(key) = 0 THEN SecretKey ELSE key]

\* each signer variant derives its MAC key under its own salt
SignerSalt(variant) == IF variant = "FernetSigner" THEN 1 ELSE 2

RECURSIVE WeightedSum(_, _, _, _)
WeightedSum(x, j, lo, hi) ==
  IF lo > hi THEN 0
  ELSE IF lo = hi THEN ((lo + j) * x[lo]) % 256
  ELSE LET mid == (lo + hi) \div 2
       IN (WeightedSum(x, j, lo, mid) + WeightedSum(x, j, mid + 1, hi)) % 256

\* signature(value): the keyed checksum standing in for HMAC
Signature(s, msg) ==
  [j \in 1..MacLen |->
     (SignerSalt(s.variant) * j + WeightedSum(s.key, j, 1, Len(s.key))
        + WeightedSum(msg, j, 1, Len(msg)) + Len(msg)) % 256]

\* sign(value, current_time)
Sign(s, value, t) ==
  LET body == value \o EncodeInt(t, TimeLen) IN body \o Signature(s, body)

\* unsign(signed_value, max_age) called when the clock reads t:
\* [kind, val] with kind "bytes", "BadSignature" or "SignatureExpired"
Unsign(s, sv, maxAge, t) ==
  IF Len(sv) < TimeLen + MacLen THEN Raise("BadSignature")
  ELSE LET body == SubSeq(sv, 1, Len(sv) - MacLen)
           sig == SubSeq(sv, Len(sv) - MacLen + 1, Len(sv))
           value == SubSeq(body, 1, Len(body) - TimeLen)
           stamp == SubSeq(body, Len(body) - TimeLen + 1, Len(body))
       IN IF sig # Signature(s, body) THEN Raise("BadSignature")
          ELSE IF ~maxAge.none /\ t - DecodeInt(stamp) > maxAge.v
            THEN Raise("SignatureExpired")
          ELSE Ok(value)

\* -------------------------------------------------------- construction
\* Optional arguments: none = TRUE is Python's None.
KeyNone == [none |-> TRUE, val |-> <<>>]
Key(k) == [none |-> FALSE, val |-> k]
SignerNone == [none |-> TRUE, variant |-> "none", key |-> <<>>]
SignerArg(variant, k) == [none |-> FALSE, variant |-> variant, key |-> k]
NoTtl == [none |-> TRUE, v |-> 0]
Ttl(n) == [none |-> FALSE, v |-> n]

\* settings.CRYPTOGRAPHY_KEY: the configured 256-bit key (conf.py derives it
\* from the secret; the loader is outside the sources)
SettingsCryptographyKey == [i \in 1..32 |-> (3 * i + 1) % 256]

NoEngine ==
  [cls |-> "none", key |-> <<>>, signer |-> [variant |-> "none", key |-> <<>>]]

Built(cls, key, signer) ==
  [err |-> "none", engine |-> [cls |-> cls, key |-> key, signer |-> signer]]

Failed(e) == [err |-> e, engine |-> NoEngine]

\* FernetBytes.__init__(key, signer) run for class cls
FernetBytesInit(cls, key, signer) ==
  LET sg == IF signer.none THEN SignerNew("FernetSigner", <<>>)
            ELSE [variant |-> signer.variant, key |-> signer.key]
      k == IF key.none \/ Len(key.val) = 0 THEN SettingsCryptographyKey ELSE key.val
  IN Built(cls, k, sg)

\* BadKeyLength gone wrong: only a short key is refused
BadKeyLengthShortOnly(raw) == Len(raw) < FernetKeyLen

\* the length test of Fernet.__init__ on the decoded key
BadKeyLength(raw) == Len(raw) # FernetKeyLen

\* AesHalf gone wrong: the signing half is used for AES too
AesHalfIsSigningHalf(raw) == SubSeq(raw, 1, SplitAt)

\* the two halves Fernet.__init__ hands on: key[16:] to AES, key[:16] to the signer
AesHalf(raw) == SubSeq(raw, SplitAt + 1, Len(raw))
SigningHalf(raw) == SubSeq(raw, 1, SplitAt)

\* Fernet.__init__(key, signer)
FernetInit(key, signer) ==
  LET sg == IF signer.none THEN SignerArg("FernetSigner", <<>>) ELSE signer IN
  IF key.none THEN FernetBytesInit("Fernet", KeyNone, SignerNone)
  ELSE LET dec == UrlsafeB64Decode(key.val) IN
       IF ~dec.ok THEN Failed("binascii.Error")
       ELSE IF BadKeyLength(dec.val) THEN Failed("ValueError")
       ELSE FernetBytesInit("Fernet", Key(AesHalf(dec.val)),
              LET n == SignerNew(sg.variant, SigningHalf(dec.val))
              IN SignerArg(n.variant, n.key))

Construct(cls, key, signer) ==
  IF cls = "Fernet" THEN FernetInit(key, signer)
  ELSE FernetBytesInit("FernetBytes", key, signer)

\* ---------------------------------------------------- a call in progress
\* One record per caller: the call's arguments and locals.
\*   op, pc   the method running and the step it is about to take
\*   arg      data (encrypt) or token (decrypt), as passed
\*   ttl      decrypt's ttl
\*   time     current_time (encrypt); the clock as unsign read it (decrypt)
\*   iv       os.urandom(16) (encrypt)
\*   buf      the value being worked on
\*   res      what the call returned or raised
\*   log      the steps taken so far, in order
\*   src      where a decrypt's token came from: the plaintext, time and IV
\*            of the encrypt call behind it
NoSrc == [kind |-> "none", data |-> <<>>, time |-> 0, iv |-> <<>>]

Idle ==
  [op |-> "idle", pc |-> "idle", arg |-> Bytes(<<>>), ttl |-> NoTtl, time |-> 0,
   iv |-> <<>>, buf |-> <<>>, res |-> NoResult, log |-> <<>>, src |-> NoSrc]

\* The statements of encrypt_at_time / _encrypt_from_parts, in order; Fernet's
\* override adds the base64 layer after the inherited body.
EncryptSteps(cls) ==
  IF cls = "Fernet" THEN <<"cipher", "sign", "encode">> ELSE <<"cipher", "sign">>

\* DecryptSteps gone wrong: the payload is decrypted before it is verified
DecryptStepsCipherFirst(cls) ==
  IF cls = "Fernet" THEN <<"decode", "cipher", "unsign", "unpad">>
  ELSE <<"cipher", "unsign", "unpad">>

\* The statements of decrypt, in order; Fernet's override decodes first.
DecryptSteps(cls) ==
  IF cls = "Fernet" THEN <<"decode", "unsign", "cipher", "unpad">>
  ELSE <<"unsign", "cipher", "unpad">>

StepsOf(cls, op) == IF op = "encrypt" THEN EncryptSteps(cls) ELSE DecryptSteps(cls)

\* encrypt_at_time(data, current_time) entered: data = force_bytes(data),
\* iv = os.urandom(16)
EncryptCall(cls, data, t, iv) ==
  [Idle EXCEPT !.op = "encrypt", !.pc = EncryptSteps(cls)[1], !.arg = data,
               !.time = t, !.iv = iv, !.buf = ForceBytes(data)]

\* decrypt(token, ttl) entered
DecryptCall(cls, token, ttl, src) ==
  [Idle EXCEPT !.op = "decrypt", !.pc = DecryptSteps(cls)[1], !.arg = Bytes(token),
               !.ttl = ttl, !.buf = token, !.src = src]

\* What one step makes of the working value: [kind, val] as for a result.
\* _encrypt_from_parts: pad, then AES-CBC under self.key and iv
EncryptCipher(e, buf, iv) ==
  IF ~CipherOk(e.key, iv) THEN Raise("ValueError")
  ELSE Ok(CbcEncrypt(e.key, iv, Pkcs7Pad(buf)))

\* return self.signer.sign(iv + ciphertext, current_time)
EncryptSign(e, buf, iv, t) == Ok(Sign(e.signer, iv \o buf, t))

\* Fernet._encrypt_from_parts: base64.urlsafe_b64encode(payload)
EncryptEncode(buf) == Ok(UrlsafeB64Encode(buf))

\* Fernet.decrypt: urlsafe_b64decode, (TypeError, binascii.Error) -> InvalidToken
DecryptDecode(buf) ==
  LET dec == UrlsafeB64Decode(buf) IN
  IF dec.ok THEN Ok(dec.val) ELSE Raise("InvalidToken")

\* data = self.signer.unsign(data, ttl): no handler around it
DecryptUnsign(e, buf, ttl, t) == Unsign(e.signer, buf, ttl, t)

\* iv = data[:16]; ciphertext = data[16:]; Cipher(...).decryptor(); update;
\* finalize under try/except ValueError -> InvalidToken
DecryptCipher(e, buf) ==
  LET iv == Take(buf, IvLen)
      ct == Drop(buf, IvLen)
  IN IF ~CipherOk(e.key, iv) THEN Raise("ValueError")
     ELSE IF ~CbcFinalizeOk(ct) THEN Raise("InvalidToken")
     ELSE Ok(CbcDecrypt(e.key, iv, ct))

\* unpadder.update; finalize under try/except ValueError -> InvalidToken
DecryptUnpad(buf) ==
  LET r == Pkcs7Unpad(buf) IN
  IF r.kind = "bytes" THEN r ELSE Raise("InvalidToken")

StepResult(e, f, iv, t) ==
  CASE f.op = "encrypt" /\ f.pc = "cipher" -> EncryptCipher(e, f.buf, iv)
    [] f.op = "encrypt" /\ f.pc = "sign" -> EncryptSign(e, f.buf, iv, f.time)
    [] f.op = "encrypt" /\ f.pc = "encode" -> EncryptEncode(f.buf)
    [] f.op = "decrypt" /\ f.pc = "decode" -> DecryptDecode(f.buf)
    [] f.op = "decrypt" /\ f.pc = "unsign" -> DecryptUnsign(e, f.buf, f.ttl, t)
    [] f.op = "decrypt" /\ f.pc = "cipher" -> DecryptCipher(e, f.buf)
    [] OTHER -> DecryptUnpad(f.buf)

IndexOf(order, pc) == CHOOSE i \in 1..Len(order) : order[i] = pc

\* The call after its next step, taken with IV iv while the clock reads t:
\* an exception ends the call, the last statement returns the value.
StepFrame(e, f, iv, t) ==
  LET r == StepResult(e, f, iv, t)
      order == StepsOf(e.cls, f.op)
      i == IndexOf(order, f.pc)
      g == [f EXCEPT !.log = Append(f.log, f.pc),
                     !.time = IF f.op = "decrypt" /\ f.pc = "unsign" THEN t ELSE f.time]
  IN IF r.kind # "bytes" THEN [g EXCEPT !.pc = "done", !.res = r]
     ELSE IF i = Len(order) THEN [g EXCEPT !.pc = "done", !.buf = r.val, !.res = r]
     ELSE [g EXCEPT !.pc = order[i + 1], !.buf = r.val]

\* A call run from f to its end with nothing in between.
RECURSIVE RunAlone(_, _, _)
RunAlone(e, f, t) == IF f.pc = "done" THEN f ELSE RunAlone(e, StepFrame(e, f, f.iv, t), t)

\* encrypt_at_time as one function of its inputs
EncryptFromParts(e, data, t, iv) == RunAlone(e, EncryptCall(e.cls, data, t, iv), t).res

\* ------------------------------------------------------------- inputs
HelloWorld == <<104, 101, 108, 108, 111, 32, 119, 111, 114, 108, 100>>

\* plaintexts: empty, short, exactly one block, and a text string
Plaintexts ==
  {Bytes(<<>>), Bytes(HelloWorld), Bytes([i \in 1..BlockSize |-> 16 + i]), Text(<<233>>)}

\* what os.urandom(16) may return
Ivs == {Rep(0, IvLen), [i \in 1..IvLen |-> 255 - i]}

\* the 32 bytes behind the Fernet key
RawFernetKey == [i \in 1..FernetKeyLen |-> i]

\* FernetBytes keys: none, 128 and 192 bits, and one AES refuses
FernetBytesKeys ==
  {KeyNone, Key([i \in 1..16 |-> 7 * i]), Key([i \in 1..24 |-> 5 * i]), Key(<<1, 2, 3, 4, 5>>)}

\* Fernet keys as passed (base64 text): 32 bytes, 31, 33, and not base64
FernetKeys ==
  {KeyNone, Key(UrlsafeB64Encode(RawFernetKey)),
   Key(UrlsafeB64Encode(SubSeq(RawFernetKey, 1, FernetKeyLen - 1))),
   Key(UrlsafeB64Encode(Append(RawFernetKey, 9))), Key(<<65>>)}

KeysFor(cls) == IF cls = "Fernet" THEN FernetKeys ELSE FernetBytesKeys

\* signers a caller may pass: none, one of each variant over a key of its own
SignerArgs ==
  {SignerNone, SignerArg("FernetSigner", <<4, 3, 2, 1>>),
   SignerArg("TimestampSigner", <<9, 8, 7, 6>>)}

Ttls == {NoTtl} \cup {Ttl(n) : n \in 0..MaxTtl}

Times == 0..MaxTime

\* payloads a holder of the signer can have signed: shorter than an IV, an IV
\* alone, an IV and a partial block, an IV and one block of noise
SignedPayloads == {<<>>, <<1, 2, 3>>, Rep(5, IvLen), Rep(5, IvLen + 7), Rep(5, IvLen + BlockSize)}

\* tokens that came from nowhere
JunkTokens == {<<>>, <<65>>, Rep(66, 12)}

\* --------------------------------------------------------------- state
VARIABLES
  engine,   \* the engine instance: cls, key, signer (NoEngine before __init__)
  ctor,     \* the arguments __init__ was called with, and what it raised
  now,      \* the clock, time.time()
  frames    \* the call each caller has in progress

vars == <<engine, ctor, now, frames>>

Callers == {1, 2}

NoCtor == [cls |-> "none", key |-> KeyNone, signer |-> SignerNone, err |-> "none"]

Init ==
  /\ engine = NoEngine
  /\ ctor = NoCtor
  /\ now = 0
  /\ frames = [c \in Callers |-> Idle]

Ready == engine.cls # "none"

\* FernetBytes(key, signer) / Fernet(key, signer)
New(cls, key, signer) ==
  /\ ctor.cls = "none"
  /\ LET r == Construct(cls, key, signer) IN
       /\ engine' = r.engine
       /\ ctor' = [cls |-> cls, key |-> key, signer |-> signer, err |-> r.err]
  /\ UNCHANGED <<now, frames>>

Tick ==
  /\ Ready
  /\ now < MaxTime
  /\ now' = now + 1
  /\ UNCHANGED <<engine, ctor, frames>>

\* encrypt(data): encrypt_at_time(data, int(time.time()))
CallEncrypt(c, data, iv) ==
  /\ Ready
  /\ frames[c].op = "idle"
  /\ frames' = [frames EXCEPT ![c] = EncryptCall(engine.cls, data, now, iv)]
  /\ UNCHANGED <<engine, ctor, now>>

\* encrypt_at_time(data, current_time)
CallEncryptAtTime(c, data, t, iv) ==
  /\ Ready
  /\ frames[c].op = "idle"
  /\ frames' = [frames EXCEPT ![c] = EncryptCall(engine.cls, data, t, iv)]
  /\ UNCHANGED <<engine, ctor, now>>

\* the caller holds the token its encrypt call returned
HoldsToken(c) ==
  /\ frames[c].op = "encrypt"
  /\ frames[c].pc = "done"
  /\ frames[c].res.kind = "bytes"

SrcOf(f, kind) ==
  [kind |-> kind, data |-> ForceBytes(f.arg), time |-> f.time, iv |-> f.iv]

\* decrypt(token, ttl) of the token just produced
CallDecryptOwn(c, ttl) ==
  /\ HoldsToken(c)
  /\ frames' = [frames EXCEPT ![c] =
       DecryptCall(engine.cls, frames[c].res.val, ttl, SrcOf(frames[c], "own"))]
  /\ UNCHANGED <<engine, ctor, now>>

\* A Fernet key that differs from raw in the first 16 bytes only.
TwinKey(raw) == [raw EXCEPT ![1] = (raw[1] + 1) % 256]

HasExplicitFernetKey == ctor.cls = "Fernet" /\ ~ctor.key.none /\ ctor.err = "none"

\* The engine built like this one from the twin key.
TwinEngine ==
  Construct("Fernet", Key(UrlsafeB64Encode(TwinKey(UrlsafeB64Decode(ctor.key.val).val))),
            ctor.signer).engine

\* decrypt(token, ttl) of the token the twin engine makes of the same
\* plaintext, time and IV
CallDecryptTwin(c, ttl) ==
  /\ HoldsToken(c)
  /\ HasExplicitFernetKey
  /\ LET f == frames[c]
         tok == EncryptFromParts(TwinEngine, f.arg, f.time, f.iv)
     IN frames' = [frames EXCEPT ![c] =
          DecryptCall(engine.cls, tok.val, ttl, SrcOf(f, "twin"))]
  /\ UNCHANGED <<engine, ctor, now>>

\* decrypt(token) of the token just produced with one bit flipped
CallDecryptFlipped(c, pos, bit) ==
  /\ HoldsToken(c)
  /\ pos \in 1..Len(frames[c].res.val)
  /\ frames' = [frames EXCEPT ![c] =
       DecryptCall(engine.cls, FlipBit(frames[c].res.val, pos, bit), NoTtl,
                   SrcOf(frames[c], "flip"))]
  /\ UNCHANGED <<engine, ctor, now>>

\* the form a signed value takes for this engine's decrypt
Wire(cls, signed) == IF cls = "Fernet" THEN UrlsafeB64Encode(signed) ELSE signed

\* decrypt(token, ttl) of a value signed by the engine's signer at time t
\* that did not come from encrypt
CallDecryptSigned(c, payload, t, ttl) ==
  /\ Ready
  /\ frames[c].op = "idle"
  /\ frames' = [frames EXCEPT ![c] =
       DecryptCall(engine.cls, Wire(engine.cls, Sign(engine.signer, payload, t)), ttl,
                   [kind |-> "signed", data |-> payload, time |-> t, iv |-> <<>>])]
  /\ UNCHANGED <<engine, ctor, now>>

\* decrypt(token, ttl) of arbitrary bytes
CallDecryptJunk(c, token, ttl) ==
  /\ Ready
  /\ frames[c].op = "idle"
  /\ frames' = [frames EXCEPT ![c] =
       DecryptCall(engine.cls, token, ttl,
                   [kind |-> "junk", data |-> <<>>, time |-> 0, iv |-> <<>>])]
  /\ UNCHANGED <<engine, ctor, now>>

\* IvOf gone wrong: one IV buffer shared by all calls
IvShared(c) == frames[1].iv

\* iv is a local of the call: each call works with the IV it drew
IvOf(c) == frames[c].iv

\* the next statement of caller c's call
Step(c) ==
  /\ frames[c].pc \notin {"idle", "done"}
  /\ frames' = [frames EXCEPT ![c] = StepFrame(engine, frames[c], IvOf(c), now)]
  /\ UNCHANGED <<engine, ctor, now>>

\* the caller drops the result
Return(c) ==
  /\ frames[c].pc = "done"
  /\ frames' = [frames EXCEPT ![c] = Idle]
  /\ UNCHANGED <<engine, ctor, now>>

\* ------------------------------------------------------ specifications
\* One caller, every constructor call, every kind of token.
Next ==
  \/ \E cls \in {"FernetBytes", "Fernet"} :
       \E key \in KeysFor(cls), signer \in SignerArgs : New(cls, key, signer)
  \/ Tick
  \/ \E data \in Plaintexts, iv \in Ivs : CallEncrypt(1, data, iv)
  \/ \E data \in Plaintexts, t \in Times, iv \in Ivs : CallEncryptAtTime(1, data, t, iv)
  \/ \E ttl \in Ttls : CallDecryptOwn(1, ttl)
  \/ \E ttl \in Ttls : CallDecryptTwin(1, ttl)
  \/ \E payload \in SignedPayloads, t \in Times, ttl \in Ttls :
       CallDecryptSigned(1, payload, t, ttl)
  \/ \E token \in JunkTokens, ttl \in Ttls : CallDecryptJunk(1, token, ttl)
  \/ Step(1)
  \/ Return(1)

Spec == Init /\ [][Next]_vars

\* Engines already constructed, for the specifications about calls alone.
BuiltCtors ==
  {[cls |-> "FernetBytes", key |-> Key([i \in 1..16 |-> 7 * i]), signer |-> SignerNone,
    err |-> "none"],
   [cls |-> "Fernet", key |-> Key(UrlsafeB64Encode(RawFernetKey)), signer |-> SignerNone,
    err |-> "none"]}

InitBuilt ==
  /\ ctor \in BuiltCtors
  /\ engine = Construct(ctor.cls, ctor.key, ctor.signer).engine
  /\ now = 0
  /\ frames = [c \in Callers |-> Idle]

\* One caller that encrypts and hands back the token with one bit flipped,
\* at every position and bit of the token.
NextTamper ==
  \/ \E data \in Plaintexts, iv \in Ivs : CallEncrypt(1, data, iv)
  \/ \E pos \in 1..Len(frames[1].res.val), bit \in 0..7 : CallDecryptFlipped(1, pos, bit)
  \/ Step(1)
  \/ Return(1)

SpecTamper == InitBuilt /\ [][NextTamper]_vars

\* Two callers on one engine, their calls interleaved statement by statement.
ConcPlaintexts == {Bytes(HelloWorld)}
ConcTtls == {NoTtl, Ttl(0)}

NextConc ==
  \/ Tick
  \/ \E c \in Callers :
       \/ \E data \in ConcPlaintexts, iv \in Ivs : CallEncrypt(c, data, iv)
       \/ \E ttl \in ConcTtls : CallDecryptOwn(c, ttl)
       \/ CallDecryptJunk(c, <<65>>, NoTtl)
       \/ Step(c)
       \/ Return(c)

SpecConc == InitBuilt /\ [][NextConc]_vars

\* ---------------------------------------------------------- properties
DecryptDone(f) == f.op = "decrypt" /\ f.pc = "done"

Last(log) == log[Len(log)]

\* the call ended in step st with an exception
FailedAt(f, st) ==
  DecryptDone(f) /\ f.res.kind # "bytes" /\ Len(f.log) > 0 /\ Last(f.log) = st

\* unsign ran in this call and returned
Verified(f) ==
  \E i \in 1..Len(f.log) : f.log[i] = "unsign" /\ ~(i = Len(f.log) /\ FailedAt(f, "unsign"))

\* C1: decrypt with ttl=None of the token encrypt_at_time(d, time) returned,
\* on the same engine, returns exactly d (the bytes of d), whatever d, the
\* key, the IV and the time are, for FernetBytes and for Fernet.
RoundTrip ==
  \A c \in Callers :
    LET f == frames[c] IN
    (DecryptDone(f) /\ f.src.kind = "own" /\ f.ttl.none) => f.res = Ok(f.src.data)

RoundTripReached ==
  /\ engine.cls = "Fernet"
  /\ DecryptDone(frames[1])
  /\ frames[1].src.kind = "own"
  /\ frames[1].ttl.none
  /\ frames[1].src.data = [i \in 1..BlockSize |-> 16 + i]
  /\ frames[1].res.kind = "bytes"

\* C2: a decrypt that ends because signer.unsign failed raises InvalidToken,
\* never the signer's own BadSignature or SignatureExpired.
UnsignFailureIsInvalidToken ==
  \A c \in Callers : FailedAt(frames[c], "unsign") => frames[c].res.kind = "InvalidToken"

\* C3: for a token of encrypt_at_time at time T and a TTL t, decrypt(token, t)
\* returns the plaintext when unsign reads the clock at T + t - 1 and raises
\* InvalidToken when it reads T + t + 1; with ttl=None it returns the
\* plaintext at every time.
ExpiryAsInvalidToken ==
  \A c \in Callers :
    LET f == frames[c] IN
    (DecryptDone(f) /\ f.src.kind = "own" /\ Len(f.log) > 0
       /\ \E i \in 1..Len(f.log) : f.log[i] = "unsign") =>
      /\ f.ttl.none => f.res = Ok(f.src.data)
      /\ (~f.ttl.none /\ f.time = f.src.time + f.ttl.v - 1) => f.res = Ok(f.src.data)
      /\ (~f.ttl.none /\ f.time = f.src.time + f.ttl.v + 1) => f.res.kind = "InvalidToken"

\* C4: decrypt of a produced token with exactly one bit flipped raises
\* InvalidToken; no such token is decrypted to a plaintext.
FlippedTokenIsInvalidToken ==
  \A c \in Callers :
    (DecryptDone(frames[c]) /\ frames[c].src.kind = "flip") =>
      frames[c].res.kind = "InvalidToken"

\* C5: on an engine with a usable AES key, a decrypt that ends in base64
\* decoding, in the AES-CBC step or in unpadding raises InvalidToken and
\* nothing else, whatever the length of the payload unsign returned.
CipherFailureIsInvalidToken ==
  \A c \in Callers :
    (AesKeyOk(engine.key)
       /\ (FailedAt(frames[c], "decode") \/ FailedAt(frames[c], "cipher")
             \/ FailedAt(frames[c], "unpad"))) =>
      frames[c].res.kind = "InvalidToken"

\* C6: a Fernet engine built from a key decoding to 32 bytes signs with
\* bytes 0..15 and encrypts with bytes 16..31; the engine built from a key
\* that differs in the first 16 bytes only has the same AES key, and decrypt
\* rejects its tokens at signature verification.
KeySplit ==
  HasExplicitFernetKey =>
    LET raw == UrlsafeB64Decode(ctor.key.val).val IN
    /\ engine.signer.key = SubSeq(raw, 1, 16)
    /\ engine.key = SubSeq(raw, 17, 32)
    /\ TwinEngine.key = engine.key
    /\ TwinEngine.signer.key # engine.signer.key
    /\ \A c \in Callers :
         (DecryptDone(frames[c]) /\ frames[c].src.kind = "twin") =>
           /\ FailedAt(frames[c], "unsign")
           /\ frames[c].res.kind = "BadSignature"

KeySplitReached ==
  /\ HasExplicitFernetKey
  /\ DecryptDone(frames[1])
  /\ frames[1].src.kind = "twin"
  /\ frames[1].ttl.none
  /\ frames[1].res.kind = "BadSignature"

\* C7: Fernet(key) with an explicit key that decodes to something other than
\* 32 bytes raises ValueError in the constructor and leaves no engine; a key
\* that decodes to exactly 32 bytes raises nothing.
KeyFormat ==
  (ctor.cls = "Fernet" /\ ~ctor.key.none /\ UrlsafeB64Decode(ctor.key.val).ok) =>
    LET raw == UrlsafeB64Decode(ctor.key.val).val IN
    /\ Len(raw) # 32 => (ctor.err = "ValueError" /\ engine = NoEngine
                           /\ \A c \in Callers : frames[c] = Idle)
    /\ Len(raw) = 32 => (ctor.err = "none" /\ engine.cls = "Fernet")

KeyFormatReached ==
  /\ ctor.cls = "Fernet"
  /\ ~ctor.key.none
  /\ UrlsafeB64Decode(ctor.key.val).ok
  /\ Len(UrlsafeB64Decode(ctor.key.val).val) = 33
  /\ ctor.err = "ValueError"

\* C8: in every decrypt call the cipher and unpadding steps come after an
\* unsign that returned; a plaintext is returned only then; when unsign
\* fails nothing follows it; for Fernet only the base64 decoding comes before
\* unsign, for FernetBytes nothing does.
VerifyBeforeDecrypt ==
  \A c \in Callers :
    LET f == frames[c] IN
    f.op = "decrypt" =>
      /\ f.pc \in {"cipher", "unpad"} => Verified(f)
      /\ f.res.kind = "bytes" => Verified(f)
      /\ \A i \in 1..Len(f.log) :
           /\ f.log[i] \in {"cipher", "unpad"} =>
                \E j \in 1..(i - 1) : f.log[j] = "unsign"
           /\ f.log[i] = "unsign" =>
                SubSeq(f.log, 1, i - 1)
                  = (IF engine.cls = "Fernet" THEN <<"decode">> ELSE <<>>)
      /\ FailedAt(f, "unsign") =>
           \A i \in 1..Len(f.log) : f.log[i] \notin {"cipher", "unpad"}

VerifyBeforeDecryptReached ==
  /\ engine.cls = "Fernet"
  /\ FailedAt(frames[1], "unsign")
  /\ frames[1].log = <<"decode", "unsign">>

\* The call of frame f as it was entered.
Entered(cls, f) ==
  IF f.op = "encrypt" THEN EncryptCall(cls, f.arg, f.time, f.iv)
  ELSE DecryptCall(cls, f.arg.val, f.ttl, f.src)

\* C9: whatever calls ran or are running on the instance, its key and signer
\* are those the constructor set, and a finished call returned or raised what
\* the same call returns or raises run alone with its arguments, IV and time.
Stateless ==
  /\ engine = Construct(ctor.cls, ctor.key, ctor.signer).engine
  /\ \A c \in Callers :
       frames[c].pc = "done" =>
         frames[c].res = RunAlone(engine, Entered(engine.cls, frames[c]), frames[c].time).res

StatelessReached ==
  /\ DecryptDone(frames[1])
  /\ frames[1].res.kind = "InvalidToken"
  /\ DecryptDone(frames[2])
  /\ frames[2].src.kind = "own"
  /\ frames[2].res = Ok(HelloWorld)
  /\ frames[2].src.iv # Rep(0, IvLen)

\* C10: an engine constructed with a signer signs and unsigns with a signer
\* of the supplied variant.
SuppliedSignerUsed ==
  (Ready /\ ~ctor.signer.none) => engine.signer.variant = ctor.signer.variant

====
